---- MODULE Spec2Model ----
(***************************************************************************)
(* shokz-sync: the sync orchestration of cli.py (sync_shokz) with the      *)
(* collaborators it calls (dependencies.py, diskutil_utils.py,             *)
(* fatsort_utils.py), as a state machine.                                  *)
(*                                                                         *)
(* Python strings are sequences of one-character strings, so that the      *)
(* substring tests, str.replace, str.split and str.strip of the code are   *)
(* computed rather than assumed.                                           *)
(***************************************************************************)
EXTENDS Integers, Sequences, FiniteSets, TLC

(***************************************************************************)
(* Python string operations                                                *)
(*                                                                         *)
(* An operator that walks through its argument takes it once: in           *)
(* CHOOSE r \in { e : t \in {s} } : TRUE, which is e with t for s, t is the  *)
(* value of s, however often e uses it.                                    *)
(***************************************************************************)

UPPER ==
    <<"A", "B", "C", "D", "E", "F", "G", "H", "I", "J", "K", "L", "M", "N",
    "O", "P", "Q", "R", "S", "T", "U", "V", "W", "X", "Y", "Z">>

LOWER ==
    <<"a", "b", "c", "d", "e", "f", "g", "h", "i", "j", "k", "l", "m", "n",
    "o", "p", "q", "r", "s", "t", "u", "v", "w", "x", "y", "z">>

\* str.lower() on one character (ASCII letters).
LowerChar(c) ==
    IF \E i \in 1..Len(UPPER) : UPPER[i] = c
    THEN LOWER[CHOOSE i \in 1..Len(UPPER) : UPPER[i] = c]
    ELSE c

\* s.lower()
Lower(s) ==
    CHOOSE lowered \in { [i \in 1..Len(t) |-> LowerChar(t[i])] : t \in {s} } : TRUE

\* s[i:] starts with sub (i is 1-based)
MatchAt(s, sub, i) ==
    /\ i + Len(sub) - 1 <= Len(s)
    /\ \A k \in 1..Len(sub) : s[i + k - 1] = sub[k]

\* sub in s
Contains(s, sub) ==
    \E t \in {s} : \E i \in 1..(Len(t) - Len(sub) + 1) : MatchAt(t, sub, i)

\* s.find(sub) as a 1-based index, 0 when sub does not occur
Find(s, sub) ==
    CHOOSE found \in
        { IF Contains(t, sub)
          THEN CHOOSE i \in 1..(Len(t) - Len(sub) + 1) :
                  /\ MatchAt(t, sub, i)
                  /\ \A j \in 1..(i - 1) : ~MatchAt(t, sub, j)
          ELSE 0
          : t \in {s} } : TRUE

\* s.replace(old, new): every non-overlapping occurrence, left to right
\* (old is not empty)
RECURSIVE Replace(_, _, _)
Replace(s, old, new) ==
    CHOOSE replaced \in
        { LET i == Find(t, old)
          IN  IF i = 0 THEN t
              ELSE SubSeq(t, 1, i - 1) \o new
                      \o Replace(SubSeq(t, i + Len(old), Len(t)), old, new)
          : t \in {s} } : TRUE

WHITESPACE == {" ", "\t", "\n", "\r"}

\* s.lstrip(), s.rstrip(), s.strip()
RECURSIVE LStrip(_)
LStrip(s) ==
    CHOOSE stripped \in
        { IF t # <<>> /\ Head(t) \in WHITESPACE THEN LStrip(Tail(t)) ELSE t
          : t \in {s} } : TRUE

RECURSIVE RStrip(_)
RStrip(s) ==
    CHOOSE stripped \in
        { IF t # <<>> /\ t[Len(t)] \in WHITESPACE
          THEN RStrip(SubSeq(t, 1, Len(t) - 1))
          ELSE t
          : t \in {s} } : TRUE

Strip(s) == RStrip(LStrip(s))

\* s.splitlines(): the lines of s without their line breaks; a final line
\* break opens no further line
RECURSIVE SplitLines(_)
SplitLines(s) ==
    CHOOSE lines \in
        { IF t = <<>> THEN <<>>
          ELSE LET i == Find(t, <<"\n">>)
               IN  IF i = 0 THEN <<t>>
                   ELSE <<SubSeq(t, 1, i - 1)>>
                            \o SplitLines(SubSeq(t, i + 1, Len(t)))
          : t \in {s} } : TRUE

\* line.split(':', 1) for a line that contains a colon: <<left, right>>
SplitColon(line) ==
    LET i == Find(line, <<":">>)
    IN  <<SubSeq(line, 1, i - 1), SubSeq(line, i + 1, Len(line))>>

\* sep.join(parts)
RECURSIVE Join(_, _)
Join(parts, sep) ==
    IF parts = <<>> THEN <<>>
    ELSE IF Len(parts) = 1 THEN parts[1]
    ELSE parts[1] \o sep \o Join(Tail(parts), sep)

(***************************************************************************)
(* String constants of the program                                         *)
(***************************************************************************)

DEFAULT_MOUNTPOINT ==
    <<"/", "V", "o", "l", "u", "m", "e", "s", "/", "X", "T", "R", "A", "I",
    "N", "E", "R", "Z">>

DEV_DISK ==
    <<"/", "d", "e", "v", "/", "d", "i", "s", "k">>

DEV_RDISK ==
    <<"/", "d", "e", "v", "/", "r", "d", "i", "s", "k">>

RDISK ==
    <<"/", "r", "d", "i", "s", "k">>

KEY_DEVICE_NODE ==
    <<"D", "e", "v", "i", "c", "e", " ", "N", "o", "d", "e">>

KEY_MOUNTED ==
    <<"M", "o", "u", "n", "t", "e", "d">>

VAL_YES ==
    <<"Y", "e", "s">>

W_UNMOUNTED ==
    <<"u", "n", "m", "o", "u", "n", "t", "e", "d">>

W_MOUNTED ==
    <<"m", "o", "u", "n", "t", "e", "d">>

W_BUSY ==
    <<"b", "u", "s", "y">>

W_RESOURCE_BUSY ==
    <<"R", "e", "s", "o", "u", "r", "c", "e", " ", "b", "u", "s", "y">>

W_DISKUTIL ==
    <<"d", "i", "s", "k", "u", "t", "i", "l">>

W_INFO ==
    <<"i", "n", "f", "o">>

W_UNMOUNT ==
    <<"u", "n", "m", "o", "u", "n", "t">>

W_MOUNT ==
    <<"m", "o", "u", "n", "t">>

MSG_COMMAND_FAILED ==
    <<"C", "o", "m", "m", "a", "n", "d", " ", "f", "a", "i", "l", "e", "d",
    ":", " ">>

MSG_UNMOUNT_MAY ==
    <<"U", "n", "m", "o", "u", "n", "t", " ", "m", "a", "y", " ", "h", "a",
    "v", "e", " ", "f", "a", "i", "l", "e", "d", ":", " ">>

MSG_MOUNT_MAY ==
    <<"M", "o", "u", "n", "t", " ", "m", "a", "y", " ", "h", "a", "v", "e",
    " ", "f", "a", "i", "l", "e", "d", ":", " ">>

MSG_NO_INFO ==
    <<"C", "o", "u", "l", "d", " ", "n", "o", "t", " ", "g", "e", "t", " ",
    "i", "n", "f", "o", " ", "f", "o", "r", " ", "m", "o", "u", "n", "t",
    "p", "o", "i", "n", "t", ":", " ">>

MSG_NO_NODE ==
    <<"C", "o", "u", "l", "d", " ", "n", "o", "t", " ", "d", "e", "t", "e",
    "r", "m", "i", "n", "e", " ", "d", "e", "v", "i", "c", "e", " ", "n",
    "o", "d", "e", " ", "f", "o", "r", " ">>

MSG_CANNOT_UNMOUNT ==
    <<"C", "a", "n", "n", "o", "t", " ", "u", "n", "m", "o", "u", "n", "t",
    " ">>

MSG_BUSY_TAIL ==
    <<" ", "-", " ", "r", "e", "s", "o", "u", "r", "c", "e", " ", "i", "s",
    " ", "b", "u", "s", "y", ".", "\n", "C", "l", "o", "s", "e", " ", "a",
    "n", "y", " ", "F", "i", "n", "d", "e", "r", " ", "w", "i", "n", "d",
    "o", "w", "s", " ", "o", "r", " ", "a", "p", "p", "s", " ", "a", "c",
    "c", "e", "s", "s", "i", "n", "g", " ", "t", "h", "e", " ", "v", "o",
    "l", "u", "m", "e", " ", "a", "n", "d", " ", "t", "r", "y", " ", "a",
    "g", "a", "i", "n", ".">>

W_SUDO ==
    <<"s", "u", "d", "o">>

W_FATSORT ==
    <<"f", "a", "t", "s", "o", "r", "t">>

W_DASH_O ==
    <<"-", "o">>

W_A ==
    <<"a">>

W_BEET ==
    <<"b", "e", "e", "t">>

W_DASH_C ==
    <<"-", "c">>

W_IMPORT ==
    <<"i", "m", "p", "o", "r", "t">>

W_PRETEND ==
    <<"-", "-", "p", "r", "e", "t", "e", "n", "d">>

W_QUIET ==
    <<"-", "-", "q", "u", "i", "e", "t">>

MSG_FATSORT_EXIT ==
    <<"f", "a", "t", "s", "o", "r", "t", " ", "f", "a", "i", "l", "e", "d",
    " ", "w", "i", "t", "h", " ", "e", "x", "i", "t", " ", "c", "o", "d",
    "e", " ">>

MSG_FATSORT_MISSING ==
    <<"f", "a", "t", "s", "o", "r", "t", " ", "c", "o", "m", "m", "a", "n",
    "d", " ", "n", "o", "t", " ", "f", "o", "u", "n", "d", ".", " ", "I",
    "n", "s", "t", "a", "l", "l", " ", "i", "t", " ", "w", "i", "t", "h",
    ":", " ", "b", "r", "e", "w", " ", "i", "n", "s", "t", "a", "l", "l",
    " ", "f", "a", "t", "s", "o", "r", "t">>

DIGITS ==
    <<"0", "1", "2", "3", "4", "5", "6", "7", "8", "9">>

\* str(n) for a natural number n
RECURSIVE IntToStr(_)
IntToStr(n) ==
    IF n < 10 THEN <<DIGITS[n + 1]>>
    ELSE IntToStr(n \div 10) \o <<DIGITS[(n % 10) + 1]>>

(***************************************************************************)
(* Results of calls.  A call either returns a value or raises; a raised    *)
(* exception carries its type and its message (str(e)).  A finished        *)
(* subprocess is a record of its exit code and captured text; "raised" is  *)
(* the exception subprocess.run itself raised instead of finishing ("" for *)
(* none).                                                                  *)
(***************************************************************************)

Return(v) == [ok |-> TRUE, val |-> v, exc |-> "", msg |-> <<>>]

Raise(type, message) == [ok |-> FALSE, val |-> <<>>, exc |-> type, msg |-> message]

Completed(rc, stdout, stderr) ==
    [rc |-> rc, stdout |-> stdout, stderr |-> stderr, raised |-> ""]

NotCompleted(exception) ==
    [rc |-> 0, stdout |-> <<>>, stderr |-> <<>>, raised |-> exception]

(***************************************************************************)
(* diskutil_utils.py                                                       *)
(***************************************************************************)

\* run_command(cmd, check=True): the CompletedProcess, or DiskutilError for a
\* non-zero exit; any other exception of subprocess.run is not caught.
run_command(cmd, proc) ==
    IF proc.raised # "" THEN Raise(proc.raised, <<>>)
    ELSE IF proc.rc # 0
    THEN Raise("DiskutilError",
               MSG_COMMAND_FAILED \o Join(cmd, <<" ">>) \o <<"\n">> \o proc.stderr)
    ELSE Return(proc)

\* A faulty variant: the first line of a key is kept, later ones are dropped.
RECURSIVE parse_info_first_kept(_, _)
parse_info_first_kept(lines, info) ==
    IF lines = <<>> THEN info
    ELSE CHOOSE parsed \in
           { IF Contains(line, <<":">>)
             THEN LET kv == SplitColon(line)
                  IN  parse_info_first_kept(rest, sofar @@ (Strip(kv[1]) :> Strip(kv[2])))
             ELSE parse_info_first_kept(rest, sofar)
             : line \in {Strip(Head(lines))}, rest \in {Tail(lines)}, sofar \in {info} }
           : TRUE

\* The loop of get_mount_info over the lines: a dict as a function from keys
\* to values, a later line overwriting an earlier one with the same key.
RECURSIVE parse_info(_, _)
parse_info(lines, info) ==
    IF lines = <<>> THEN info
    ELSE CHOOSE parsed \in
           { IF Contains(line, <<":">>)
             THEN LET kv == SplitColon(line)
                  IN  parse_info(rest, (Strip(kv[1]) :> Strip(kv[2])) @@ sofar)
             ELSE parse_info(rest, sofar)
             : line \in {Strip(Head(lines))}, rest \in {Tail(lines)}, sofar \in {info} }
           : TRUE

EmptyDict == [k \in {} |-> <<>>]

\* dict.get(key): None is [some |-> FALSE]
DictGet(info, key) ==
    IF key \in DOMAIN info
    THEN [some |-> TRUE, v |-> info[key]]
    ELSE [some |-> FALSE, v |-> <<>>]

info_cmd(mountpoint) == <<W_DISKUTIL, W_INFO, mountpoint>>

get_mount_info(mountpoint, proc) ==
    LET result == run_command(info_cmd(mountpoint), proc)
    IN  IF ~result.ok THEN result
        ELSE LET info == parse_info(SplitLines(result.val.stdout), EmptyDict)
             IN  IF DOMAIN info = {}
                 THEN Raise("DiskutilError", MSG_NO_INFO \o mountpoint)
                 ELSE Return(info)

\* A faulty variant: only a missing key is an error, an empty value is
\* returned.
get_device_node_allows_empty(mountpoint, proc) ==
    LET info == get_mount_info(mountpoint, proc)
    IN  IF ~info.ok THEN info
        ELSE LET device_node == DictGet(info.val, KEY_DEVICE_NODE)
             IN  IF ~device_node.some
                 THEN Raise("DiskutilError", MSG_NO_NODE \o mountpoint)
                 ELSE Return(device_node.v)

get_device_node(mountpoint, proc) ==
    LET info == get_mount_info(mountpoint, proc)
    IN  IF ~info.ok THEN info
        ELSE LET device_node == DictGet(info.val, KEY_DEVICE_NODE)
             IN  IF ~device_node.some \/ device_node.v = <<>>
                 THEN Raise("DiskutilError", MSG_NO_NODE \o mountpoint)
                 ELSE Return(device_node.v)

\* A faulty variant: every "disk" is given an "r", also one that has it.
get_raw_device_node_every_disk(device_node) ==
    Replace(device_node, <<"d", "i", "s", "k">>, <<"r", "d", "i", "s", "k">>)

get_raw_device_node(device_node) == Replace(device_node, DEV_DISK, DEV_RDISK)

unmount_cmd(mountpoint) == <<W_DISKUTIL, W_UNMOUNT, mountpoint>>

\* A faulty variant: the exit code alone decides, the text is not read.
unmount_volume_by_exit_code(mountpoint, proc) ==
    run_command(unmount_cmd(mountpoint), proc)

\* A faulty variant: the handler lacks its final `raise`, so that only the
\* busy failure is raised.
unmount_volume_without_reraise(mountpoint, proc) ==
    LET result == run_command(unmount_cmd(mountpoint), proc)
        tried ==
            IF ~result.ok THEN result
            ELSE IF ~Contains(Lower(result.val.stdout), W_UNMOUNTED)
            THEN Raise("DiskutilError", MSG_UNMOUNT_MAY \o result.val.stdout)
            ELSE Return(<<>>)
    IN  IF ~tried.ok /\ tried.exc = "DiskutilError"
        THEN IF \/ Contains(tried.msg, W_RESOURCE_BUSY)
                \/ Contains(Lower(tried.msg), W_BUSY)
             THEN Raise("DiskutilError",
                        MSG_CANNOT_UNMOUNT \o mountpoint \o MSG_BUSY_TAIL)
             ELSE Return(<<>>)
        ELSE tried

\* A faulty variant: the confirmation word is looked for as printed, without
\* lowering the output first.
unmount_volume_case_sensitive(mountpoint, proc) ==
    LET result == run_command(unmount_cmd(mountpoint), proc)
        tried ==
            IF ~result.ok THEN result
            ELSE IF ~Contains(result.val.stdout, W_UNMOUNTED)
            THEN Raise("DiskutilError", MSG_UNMOUNT_MAY \o result.val.stdout)
            ELSE Return(<<>>)
    IN  IF ~tried.ok /\ tried.exc = "DiskutilError"
        THEN IF \/ Contains(tried.msg, W_RESOURCE_BUSY)
                \/ Contains(Lower(tried.msg), W_BUSY)
             THEN Raise("DiskutilError",
                        MSG_CANNOT_UNMOUNT \o mountpoint \o MSG_BUSY_TAIL)
             ELSE tried
        ELSE tried

unmount_volume(mountpoint, proc) ==
    LET result == run_command(unmount_cmd(mountpoint), proc)
    IN  CHOOSE raised \in
          { IF ~tried.ok /\ tried.exc = "DiskutilError"
            THEN IF \/ Contains(tried.msg, W_RESOURCE_BUSY)
                    \/ Contains(Lower(tried.msg), W_BUSY)
                 THEN Raise("DiskutilError",
                            MSG_CANNOT_UNMOUNT \o mountpoint \o MSG_BUSY_TAIL)
                 ELSE tried
            ELSE tried
            : tried \in
                { IF ~result.ok THEN result
                  ELSE IF ~Contains(Lower(result.val.stdout), W_UNMOUNTED)
                  THEN Raise("DiskutilError", MSG_UNMOUNT_MAY \o result.val.stdout)
                  ELSE Return(<<>>) } }
          : TRUE

mount_cmd(device_node) == <<W_DISKUTIL, W_MOUNT, device_node>>

\* A faulty variant: whatever the tool did, the mount counts as done.
mount_volume_unchecked(device_node, proc) == Return(<<>>)

mount_volume(device_node, proc) ==
    LET result == run_command(mount_cmd(device_node), proc)
    IN  IF ~result.ok THEN result
        ELSE IF ~Contains(Lower(result.val.stdout), W_MOUNTED)
        THEN Raise("DiskutilError", MSG_MOUNT_MAY \o result.val.stdout)
        ELSE Return(<<>>)

\* is_mounted(mountpoint); exists is os.path.exists(mountpoint).  The
\* disk-info tool is queried only when the path exists.
is_mounted(mountpoint, exists, proc) ==
    IF ~exists THEN Return(FALSE)
    ELSE LET info == get_mount_info(mountpoint, proc)
         IN  IF info.ok
             THEN LET m == DictGet(info.val, KEY_MOUNTED)
                  IN  Return(m.some /\ m.v = VAL_YES)
             ELSE IF info.exc = "DiskutilError" THEN Return(FALSE)
             ELSE info

(***************************************************************************)
(* fatsort_utils.py                                                        *)
(***************************************************************************)

\* A faulty variant: the argument is passed on as given.
fatsort_device_as_given(device_node) == device_node

\* The device path run_fatsort passes on: the raw form of its argument.
fatsort_device(device_node) ==
    IF ~Contains(device_node, RDISK)
    THEN Replace(device_node, DEV_DISK, DEV_RDISK)
    ELSE device_node

fatsort_cmd(device_node, use_sudo) ==
    (IF use_sudo THEN <<W_SUDO>> ELSE <<>>)
        \o <<W_FATSORT, W_DASH_O, W_A, fatsort_device(device_node)>>

\* A faulty variant: the error for a non-zero exit leaves out what the tool
\* wrote to stderr.
run_fatsort_without_stderr(device_node, use_sudo, proc) ==
    IF proc.raised = "FileNotFoundError"
    THEN Raise("FatsortError", MSG_FATSORT_MISSING)
    ELSE IF proc.raised # "" THEN Raise(proc.raised, <<>>)
    ELSE IF proc.rc # 0
    THEN Raise("FatsortError", MSG_FATSORT_EXIT \o IntToStr(proc.rc))
    ELSE Return(<<>>)

\* run_fatsort(device_node, use_sudo) given what subprocess.run(check=True)
\* did: FatsortError for a non-zero exit and for FileNotFoundError.
run_fatsort(device_node, use_sudo, proc) ==
    IF proc.raised = "FileNotFoundError"
    THEN Raise("FatsortError", MSG_FATSORT_MISSING)
    ELSE IF proc.raised # "" THEN Raise(proc.raised, <<>>)
    ELSE IF proc.rc # 0
    THEN Raise("FatsortError",
               MSG_FATSORT_EXIT \o IntToStr(proc.rc)
                 \o (IF proc.stderr # <<>> THEN <<":", "\n">> \o proc.stderr ELSE <<>>))
    ELSE Return(<<>>)

(***************************************************************************)
(* dependencies.py                                                         *)
(***************************************************************************)

REQUIRED_COMMANDS == <<"beet", "ffmpeg", "ffprobe", "fatsort", "diskutil">>

\* What the host does for one tool: "ok" (found, check command exits 0),
\* "nonzero" (found, check command exits non-zero), "missing" (not in PATH),
\* "timeout" (found, check command exceeds the 5 s timeout).
ToolStatus == {"ok", "nonzero", "missing", "timeout"}

check_command_available(status) == status # "missing"

verify_command_works(status) ==
    IF ~check_command_available(status) THEN FALSE
    ELSE status # "timeout"

check_all_dependencies(tools) ==
    [i \in 1..Len(REQUIRED_COMMANDS) |-> verify_command_works(tools[i])]

missing_dependencies(results) ==
    {REQUIRED_COMMANDS[i] : i \in {j \in 1..Len(REQUIRED_COMMANDS) : ~results[j]}}

\* A faulty variant: one available tool is enough.
verify_dependencies_any(results) ==
    \E i \in DOMAIN results : results[i]

verify_dependencies(results) == missing_dependencies(results) = {}

(***************************************************************************)
(* cli.py: run_beets_import                                                *)
(***************************************************************************)

\* A faulty variant: --pretend is never passed.
beets_import_cmd_without_pretend(mountpoint, config_path, dry_run) ==
    <<W_BEET>>
        \o (IF config_path # <<>> THEN <<W_DASH_C, config_path>> ELSE <<>>)
        \o <<W_IMPORT>>
        \o <<W_QUIET>>
        \o <<mountpoint>>

beets_import_cmd(mountpoint, config_path, dry_run) ==
    <<W_BEET>>
        \o (IF config_path # <<>> THEN <<W_DASH_C, config_path>> ELSE <<>>)
        \o <<W_IMPORT>>
        \o (IF dry_run THEN <<W_PRETEND>> ELSE <<>>)
        \o <<W_QUIET>>
        \o <<mountpoint>>

\* A faulty variant: the exit code is not read.
run_beets_import_unchecked(proc) == proc.raised = ""

\* True only for a finished process with exit code 0; every exception of
\* subprocess.run is caught and gives False.
run_beets_import(proc) ==
    IF proc.raised # "" THEN FALSE ELSE proc.rc = 0

(***************************************************************************)
(* The host: the volume, the config file and the external tools.           *)
(*                                                                         *)
(* The tools are the collaborators of the orchestration, not code of the   *)
(* repository.  diskutil is modelled with the messages the real tool       *)
(* prints and is truthful: it prints the confirmation word exactly when    *)
(* the volume changed state, and it reports "Mounted: Yes" exactly for a   *)
(* mounted volume.  The volume is owned by the session: nothing else       *)
(* mounts or unmounts it.                                                  *)
(***************************************************************************)

MP_TEST ==
    <<"/", "V", "o", "l", "u", "m", "e", "s", "/", "T", "E", "S", "T">>

NODE_A ==
    <<"/", "d", "e", "v", "/", "d", "i", "s", "k", "4", "s", "1">>

NODE_B ==
    <<"/", "d", "e", "v", "/", "d", "i", "s", "k", "5", "s", "1">>

DEFAULT_CONFIG_PATH ==
    <<"~", "/", ".", "c", "o", "n", "f", "i", "g", "/", "b", "e", "e", "t",
    "s", "/", "c", "o", "n", "f", "i", "g", ".", "y", "a", "m", "l">>

OUT_VOLUME_ON ==
    <<"V", "o", "l", "u", "m", "e", " ", "X", "T", "R", "A", "I", "N", "E",
    "R", "Z", " ", "o", "n", " ">>

OUT_UNMOUNTED ==
    <<" ", "u", "n", "m", "o", "u", "n", "t", "e", "d", "\n">>

OUT_MOUNTED ==
    <<" ", "m", "o", "u", "n", "t", "e", "d", "\n">>

OUT_FAILED_TO_MOUNT ==
    <<" ", "f", "a", "i", "l", "e", "d", " ", "t", "o", " ", "m", "o", "u",
    "n", "t", "\n">>

OUT_UNMOUNT_FAILED ==
    <<"U", "n", "m", "o", "u", "n", "t", " ", "f", "a", "i", "l", "e", "d",
    " ", "f", "o", "r", " ">>

ERR_RESOURCE_BUSY ==
    <<"U", "n", "m", "o", "u", "n", "t", " ", "f", "a", "i", "l", "e", "d",
    ":", " ", "R", "e", "s", "o", "u", "r", "c", "e", " ", "b", "u", "s",
    "y", "\n">>

ERR_NO_DISK ==
    <<"C", "o", "u", "l", "d", " ", "n", "o", "t", " ", "f", "i", "n", "d",
    " ", "d", "i", "s", "k", ":", " ">>

ERR_FATSORT ==
    <<"f", "a", "t", "s", "o", "r", "t", ":", " ", "c", "o", "u", "l", "d",
    " ", "n", "o", "t", " ", "o", "p", "e", "n", " ", "d", "e", "v", "i",
    "c", "e", "\n">>

LINE_DEVICE_NODE ==
    <<"\n", " ", " ", " ", "D", "e", "v", "i", "c", "e", " ", "N", "o", "d",
    "e", ":", " ", " ", " ", " ", " ", " ", " ", " ", " ", " ", " ", " ",
    " ", " ">>

LINE_VOLUME_NAME ==
    <<" ", " ", " ", "V", "o", "l", "u", "m", "e", " ", "N", "a", "m", "e",
    ":", " ", " ", " ", " ", " ", " ", " ", " ", " ", " ", " ", " ", " ",
    " ", "X", "T", "R", "A", "I", "N", "E", "R", "Z", "\n">>

LINE_MOUNTED_YES ==
    <<" ", " ", " ", "M", "o", "u", "n", "t", "e", "d", ":", " ", " ", " ",
    " ", " ", " ", " ", " ", " ", " ", " ", " ", " ", " ", " ", " ", " ",
    " ", "Y", "e", "s", "\n">>

LINE_MOUNTED_NO ==
    <<" ", " ", " ", "M", "o", "u", "n", "t", "e", "d", ":", " ", " ", " ",
    " ", " ", " ", " ", " ", " ", " ", " ", " ", " ", " ", " ", " ", " ",
    " ", "N", "o", "\n">>

Mountpoints == {DEFAULT_MOUNTPOINT, MP_TEST}

Bitrates == {"96k", "128k"}

DeviceNodes == {NODE_A, NODE_B}

\* The non-zero exit codes a tool is let to end with.
MaxExitCode == 2

ExitCodes == 1..MaxExitCode

\* What `diskutil info <mountpoint>` can do for a path that exists.
DiskutilInfo(mountpoint, mounted, node) ==
    IF mounted
    THEN { Completed(0, LINE_DEVICE_NODE \o node \o <<"\n">>
                          \o LINE_VOLUME_NAME \o LINE_MOUNTED_YES, <<>>),
           Completed(0, LINE_VOLUME_NAME \o LINE_MOUNTED_YES, <<>>),
           Completed(0, <<>>, <<>>) }
         \cup { Completed(rc, <<>>, ERR_NO_DISK \o mountpoint \o <<"\n">>) :
                  rc \in ExitCodes }
    ELSE { Completed(0, LINE_DEVICE_NODE \o node \o <<"\n">>
                          \o LINE_VOLUME_NAME \o LINE_MOUNTED_NO, <<>>),
           Completed(0, <<>>, <<>>) }
         \cup { Completed(rc, <<>>, ERR_NO_DISK \o mountpoint \o <<"\n">>) :
                  rc \in ExitCodes }

\* What `diskutil unmount <mountpoint>` can do: pairs of the finished
\* process and the mount state it leaves.
DiskutilUnmount(mountpoint, mounted, node) ==
    (IF mounted
     THEN { <<Completed(0, OUT_VOLUME_ON \o node \o OUT_UNMOUNTED, <<>>), FALSE>> }
     ELSE {})
    \cup { <<Completed(rc, <<>>, ERR_RESOURCE_BUSY), mounted>> : rc \in ExitCodes }
    \cup { <<Completed(rc, <<>>, OUT_UNMOUNT_FAILED \o mountpoint \o <<"\n">>), mounted>> :
             rc \in ExitCodes }
    \cup { <<Completed(0, OUT_UNMOUNT_FAILED \o mountpoint \o <<"\n">>, <<>>), mounted>> }

\* What `diskutil mount <device_node>` can do; it can mount only the node
\* the volume has now.
DiskutilMount(device_node, mounted, node) ==
    (IF ~mounted /\ device_node = node
     THEN { <<Completed(0, OUT_VOLUME_ON \o device_node \o OUT_MOUNTED, <<>>), TRUE>> }
     ELSE {})
    \cup { <<Completed(rc, <<>>, ERR_NO_DISK \o device_node \o <<"\n">>), mounted>> :
             rc \in ExitCodes }
    \cup { <<Completed(0, OUT_VOLUME_ON \o device_node \o OUT_FAILED_TO_MOUNT, <<>>),
             mounted>> }

\* What `sudo fatsort -o a <raw device>` can do.
Fatsort ==
    { Completed(0, <<>>, <<>>), NotCompleted("FileNotFoundError") }
    \cup { Completed(rc, <<>>, err) : rc \in ExitCodes, err \in {ERR_FATSORT, <<>>} }

\* What `beet ... import ...` can do.
BeetImport ==
    { Completed(0, <<>>, <<>>),
      NotCompleted("FileNotFoundError"),
      NotCompleted("OSError") }
    \cup { Completed(rc, <<>>, <<>>) : rc \in ExitCodes }

\* beets_config.py: the config file is absent, present but not a valid beets
\* config, or valid.
ConfigStates == {"absent", "invalid", "valid"}

verify_beets_config(config) == config = "valid"

(***************************************************************************)
(* State                                                                   *)
(***************************************************************************)

VARIABLES
    pc,           \* where the process is: main, a step of sync_shokz, ...
    argv,         \* the command line as given (sys.argv)
    args,         \* the argparse Namespace
    fs,           \* the files and directories under the mountpoint
    pathExists,   \* os.path.exists(mountpoint)
    volMounted,   \* the volume is mounted
    volNode,      \* the device node the volume has now
    config,       \* state of the beets config file
    dep_results,  \* check_all_dependencies(), once computed
    device_node,  \* local of sync_shokz (<<>> before it is assigned)
    raw_device,   \* local of sync_shokz (<<>> before it is assigned)
    calls,        \* the collaborator calls made so far, in order
    log,          \* the messages logged so far, in order
    ret,          \* the handler's return value (-1 before it returns)
    exit_code     \* the process exit code (-1 before sys.exit)

vars == <<pc, argv, args, fs, pathExists, volMounted, volNode, config, dep_results,
          device_node, raw_device, calls, log, ret, exit_code>>

hostVars == <<pathExists, volMounted, volNode, config>>

locals == <<device_node, raw_device>>

\* A collaborator call: its name, the command line it ran (<<>> when it ran
\* none), what the tool did, whether the volume was mounted when the call was
\* made, whether the call returned success, and the string it returned.
Call(op, cmd, proc, ok, result) ==
    [op |-> op, cmd |-> cmd, proc |-> proc, mounted |-> volMounted,
     ok |-> ok, result |-> result]

\* For a call that runs no external tool.
NoProcess == Completed(0, <<>>, <<>>)

Say(tag, message) == [tag |-> tag, msg |-> message]

\* The command lines a user can give.
Namespace(command, mountpoint, bitrate, dry_run, verbose, force) ==
    [command |-> command, mountpoint |-> mountpoint, bitrate |-> bitrate,
     dry_run |-> dry_run, verbose |-> verbose, force |-> force]

\* A command line: the subcommand ("" when there is none) and its options,
\* <<>> for --mountpoint and "" for --bitrate when the option is not given.
Argv(command, mountpoint, bitrate, dry_run, verbose, force) ==
    [command |-> command, mountpoint |-> mountpoint, bitrate |-> bitrate,
     dry_run |-> dry_run, verbose |-> verbose, force |-> force]

CommandLines ==
    { Argv("", <<>>, "", FALSE, FALSE, FALSE),
      Argv("show-config", <<>>, "", FALSE, FALSE, FALSE) }
    \cup { Argv("sync", m, b, d, v, FALSE) :
             m \in Mountpoints \cup {<<>>}, b \in Bitrates \cup {""},
             d \in BOOLEAN, v \in BOOLEAN }
    \cup { Argv("init-config", m, b, FALSE, FALSE, f) :
             m \in Mountpoints \cup {<<>>}, b \in Bitrates \cup {""},
             f \in BOOLEAN }

\* parser.parse_args(): the options of the subcommand with the defaults of
\* add_argument for those not given; without a subcommand, command is None
\* and the Namespace has no option at all.
parse_args(a) ==
    IF a.command \in {"sync", "init-config"}
    THEN Namespace(a.command,
                   IF a.mountpoint = <<>> THEN DEFAULT_MOUNTPOINT ELSE a.mountpoint,
                   IF a.bitrate = "" THEN "96k" ELSE a.bitrate,
                   a.dry_run, a.verbose, a.force)
    ELSE Namespace(a.command, <<>>, "", FALSE, FALSE, FALSE)

Init ==
    /\ pc = "main"
    /\ argv \in CommandLines
    /\ args = parse_args(argv)
    /\ fs = {}
    /\ pathExists \in BOOLEAN
    /\ volMounted \in BOOLEAN
    /\ volMounted => pathExists
    /\ volNode \in DeviceNodes
    /\ config \in ConfigStates
    /\ dep_results = <<>>
    /\ device_node = <<>>
    /\ raw_device = <<>>
    /\ calls = <<>>
    /\ log = <<>>
    /\ ret = -1
    /\ exit_code = -1

(***************************************************************************)
(* cli.py: main, init_config, show_config                                  *)
(***************************************************************************)

\* A faulty variant: only the command is defaulted, the options are not.
default_args_command_only(a) ==
    IF a.command = "" THEN [a EXCEPT !.command = "sync"] ELSE a

\* args after "Default to sync if no command specified"
default_args(a) ==
    IF a.command = ""
    THEN [a EXCEPT !.command = "sync", !.mountpoint = DEFAULT_MOUNTPOINT,
                   !.bitrate = "96k", !.dry_run = FALSE, !.verbose = FALSE]
    ELSE a

\* The handler main routes a command to.
route(command) ==
    IF command = "init-config" THEN "init_config"
    ELSE IF command = "show-config" THEN "show_config"
    ELSE "sync_shokz"

\* main(): parse, default, route.
Main ==
    /\ pc = "main"
    /\ args' = default_args(args)
    /\ pc' = route(args'.command)
    /\ UNCHANGED <<argv, fs, hostVars, dep_results, locals, calls, log, ret, exit_code>>

\* A handler returns code, having logged the messages in said.
Returns(code, said) ==
    /\ pc' = "return"
    /\ ret' = code
    /\ log' = log \o said

\* init_config(args)
InitConfig ==
    /\ pc = "init_config"
    /\ IF config # "absent" /\ ~args.force
       THEN /\ Returns(1, <<Say("error: config exists", <<>>)>>)
            /\ UNCHANGED <<config, calls>>
       ELSE \E created \in BOOLEAN :
              /\ calls' = Append(calls, Call("create_beets_config", <<>>, NoProcess, created, <<>>))
              /\ IF created
                 THEN /\ config' = "valid"
                      /\ Returns(0, <<Say("Config created", <<>>)>>)
                 ELSE /\ UNCHANGED config
                      /\ Returns(1, <<Say("error: config", <<>>)>>)
    /\ UNCHANGED <<argv, args, fs, pathExists, volMounted, volNode, dep_results, locals, exit_code>>

\* show_config(args)
ShowConfig ==
    /\ pc = "show_config"
    /\ Returns(0, <<Say("template", <<>>)>>)
    /\ UNCHANGED <<argv, args, fs, hostVars, dep_results, locals, calls, exit_code>>

\* A faulty variant: sys.exit() without the handler's code.
sys_exit_without_code(code) == 0

\* The status main hands to sys.exit.
sys_exit(code) == code

\* sys.exit(exit_code)
Exit ==
    /\ pc = "return"
    /\ exit_code' = sys_exit(ret)
    /\ pc' = "exited"
    /\ UNCHANGED <<argv, args, fs, hostVars, dep_results, locals, calls, log, ret>>

(***************************************************************************)
(* cli.py: sync_shokz, one action per step                                 *)
(***************************************************************************)

\* A faulty variant: the remount follows the unmount, fatsort is left out.
next_step_without_fatsort(step) ==
    CASE step = "sync_shokz" -> "is_mounted"
      [] step = "is_mounted" -> "config"
      [] step = "config" -> "import"
      [] step = "import" -> "resolve"
      [] step = "resolve" -> "unmount"
      [] step = "unmount" -> "remount"
      [] step = "fatsort" -> "remount"
      [] step = "remount" -> "summary"

\* A faulty variant: the summary follows fatsort, the remount is left out.
next_step_without_remount(step) ==
    CASE step = "sync_shokz" -> "is_mounted"
      [] step = "is_mounted" -> "config"
      [] step = "config" -> "import"
      [] step = "import" -> "resolve"
      [] step = "resolve" -> "unmount"
      [] step = "unmount" -> "fatsort"
      [] step = "fatsort" -> "summary"
      [] step = "remount" -> "summary"

\* The order of the steps of sync_shokz: the step that follows a step that
\* succeeded.
next_step(step) ==
    CASE step = "sync_shokz" -> "is_mounted"
      [] step = "is_mounted" -> "config"
      [] step = "config" -> "import"
      [] step = "import" -> "resolve"
      [] step = "resolve" -> "unmount"
      [] step = "unmount" -> "fatsort"
      [] step = "fatsort" -> "remount"
      [] step = "remount" -> "summary"

\* A faulty variant: the dry run does not stop after the import.
never_stops_after_import(a) == FALSE

\* A faulty variant: every session stops after the import.
always_stops_after_import(a) == TRUE

\* "If dry run, stop here"
stops_after_import(a) == a.dry_run

\* A faulty variant: the recovery path mounts the node the volume has after
\* fatsort, not the one resolved before the unmount.
recovery_mount_target_current == volNode

\* A faulty variant: the recovery path mounts the raw device.
recovery_mount_target_raw == raw_device

\* The device node the recovery path hands to mount_volume.
recovery_mount_target == device_node

\* A faulty variant: the recovery path has no except clause.
recovery_catches_nothing(exc) == FALSE

\* The exceptions the recovery path swallows.
recovery_catches(exc) == exc = "DiskutilError"

\* A faulty variant: the remount failure is logged as a fatsort failure.
remount_failure_as_fatsort(message) == <<Say("error: fatsort", message)>>

\* What is logged when the remount after a successful fatsort fails.
remount_failure(message) == <<Say("error: remount", message)>>

\* The next step of sync_shokz, having logged the messages in said.
Goes(step, said) ==
    /\ pc' = step
    /\ log' = log \o said
    /\ UNCHANGED ret

\* An exception no handler of sync_shokz catches leaves main as a traceback.
Crashes ==
    /\ pc' = "crashed"
    /\ UNCHANGED <<log, ret>>


\* "Check dependencies"
CheckDependencies ==
    /\ pc = "sync_shokz"
    /\ \E tools \in [1..Len(REQUIRED_COMMANDS) -> ToolStatus] :
         /\ dep_results' = check_all_dependencies(tools)
         /\ IF ~verify_dependencies(dep_results')
            THEN Returns(1, <<>>)
            ELSE Goes(next_step(pc), <<Say("DependenciesVerified", <<>>)>>)
    /\ UNCHANGED <<argv, args, fs, hostVars, locals, calls, exit_code>>

\* "Verify mountpoint exists"
CheckMounted ==
    /\ pc = "is_mounted"
    /\ \E proc \in DiskutilInfo(args.mountpoint, volMounted, volNode) :
         LET mounted == is_mounted(args.mountpoint, pathExists, proc)
         IN  /\ calls' = Append(calls,
                   Call("is_mounted",
                        IF pathExists THEN info_cmd(args.mountpoint) ELSE <<>>,
                        IF pathExists THEN proc ELSE NoProcess,
                        mounted.ok /\ mounted.val, <<>>))
             /\ IF ~mounted.ok THEN Crashes
                ELSE IF ~mounted.val
                THEN Returns(1, <<Say("error: not mounted", <<>>)>>)
                ELSE Goes(next_step(pc), <<Say("VolumeFound", <<>>)>>)
    /\ UNCHANGED <<argv, args, fs, hostVars, dep_results, locals, exit_code>>

\* "Check or create config"
EnsureConfig ==
    /\ pc = "config"
    /\ IF ~verify_beets_config(config)
       THEN \E created \in BOOLEAN :
              /\ calls' = Append(calls,
                    Call("create_beets_config", <<>>, NoProcess, created, <<>>))
              /\ IF created
                 THEN /\ config' = "valid"
                      /\ Goes(next_step(pc), <<Say("ConfigReady", <<>>)>>)
                 ELSE /\ UNCHANGED config
                      /\ Returns(1, <<Say("error: config", <<>>)>>)
       ELSE /\ Goes(next_step(pc), <<Say("ConfigReady", <<>>)>>)
            /\ UNCHANGED <<config, calls>>
    /\ UNCHANGED <<argv, args, fs, pathExists, volMounted, volNode, dep_results, locals, exit_code>>

\* "Run beets import", and "If dry run, stop here"
Import ==
    /\ pc = "import"
    /\ \E proc \in BeetImport :
         LET success == run_beets_import(proc)
         IN  /\ calls' = Append(calls,
                   Call("run_beets_import",
                        beets_import_cmd(args.mountpoint, DEFAULT_CONFIG_PATH, args.dry_run),
                        proc, success, <<>>))
             /\ IF ~success
                THEN Returns(1, <<Say("error: import", <<>>)>>)
                ELSE IF stops_after_import(args)
                THEN Returns(0, <<Say("Imported", <<>>)>>)
                ELSE Goes(next_step(pc), <<Say("Imported", <<>>)>>)
    /\ UNCHANGED <<argv, args, fs, hostVars, dep_results, locals, exit_code>>

\* "Get device information for fatsort"
Resolve ==
    /\ pc = "resolve"
    /\ \E proc \in DiskutilInfo(args.mountpoint, volMounted, volNode) :
         LET node == get_device_node(args.mountpoint, proc)
         IN  /\ calls' = Append(calls,
                   Call("get_device_node", info_cmd(args.mountpoint), proc,
                        node.ok, IF node.ok THEN node.val ELSE <<>>))
             /\ IF node.ok
                THEN /\ device_node' = node.val
                     /\ raw_device' = get_raw_device_node(node.val)
                     /\ Goes(next_step(pc), <<>>)
                ELSE /\ UNCHANGED locals
                     /\ IF node.exc = "DiskutilError"
                        THEN Returns(1, <<Say("error: device info", node.msg)>>)
                        ELSE Crashes
    /\ UNCHANGED <<argv, args, fs, hostVars, dep_results, exit_code>>

\* "Unmount"
Unmount ==
    /\ pc = "unmount"
    /\ \E tool \in DiskutilUnmount(args.mountpoint, volMounted, volNode) :
         LET done == unmount_volume(args.mountpoint, tool[1])
         IN  /\ calls' = Append(calls,
                   Call("unmount_volume", unmount_cmd(args.mountpoint), tool[1],
                        done.ok, <<>>))
             /\ volMounted' = tool[2]
             /\ IF done.ok THEN Goes(next_step(pc), <<Say("Unmounted", <<>>)>>)
                ELSE IF done.exc = "DiskutilError"
                THEN Returns(1, <<Say("error: unmount", done.msg)>>)
                ELSE Crashes
    /\ UNCHANGED <<argv, args, fs, pathExists, volNode, config, dep_results, locals, exit_code>>

\* "Run fatsort"; the tool may leave the volume under another device node.
RunFatsort ==
    /\ pc = "fatsort"
    /\ \E proc \in Fatsort, node \in DeviceNodes :
         LET done == run_fatsort(raw_device, TRUE, proc)
         IN  /\ calls' = Append(calls,
                   Call("run_fatsort", fatsort_cmd(raw_device, TRUE), proc,
                        done.ok, <<>>))
             /\ volNode' = IF proc.raised = "" THEN node ELSE volNode
             /\ IF done.ok THEN Goes(next_step(pc), <<Say("Reordered", <<>>)>>)
                ELSE IF done.exc = "FatsortError"
                THEN Goes("recover", <<Say("error: fatsort", done.msg)>>)
                ELSE Crashes
    /\ UNCHANGED <<argv, args, fs, pathExists, volMounted, config, dep_results, locals, exit_code>>

\* "Try to remount anyway", after a FatsortError
RecoveryMount ==
    /\ pc = "recover"
    /\ \E tool \in DiskutilMount(recovery_mount_target, volMounted, volNode) :
         LET done == mount_volume(recovery_mount_target, tool[1])
         IN  /\ calls' = Append(calls,
                   Call("mount_volume", mount_cmd(recovery_mount_target), tool[1],
                        done.ok, <<>>))
             /\ volMounted' = tool[2]
             /\ IF done.ok \/ recovery_catches(done.exc)
                THEN Returns(1, <<>>)
                ELSE Crashes
    /\ UNCHANGED <<argv, args, fs, pathExists, volNode, config, dep_results, locals, exit_code>>

\* "Remount"
Remount ==
    /\ pc = "remount"
    /\ \E tool \in DiskutilMount(device_node, volMounted, volNode) :
         LET done == mount_volume(device_node, tool[1])
         IN  /\ calls' = Append(calls,
                   Call("mount_volume", mount_cmd(device_node), tool[1],
                        done.ok, <<>>))
             /\ volMounted' = tool[2]
             /\ IF done.ok THEN Goes(next_step(pc), <<Say("Remounted", <<>>)>>)
                ELSE IF done.exc = "DiskutilError"
                THEN Returns(1, remount_failure(done.msg))
                ELSE Crashes
    /\ UNCHANGED <<argv, args, fs, pathExists, volNode, config, dep_results, locals, exit_code>>

\* "Final summary"
Summary ==
    /\ pc = "summary"
    /\ Returns(0, <<Say("Done", <<>>)>>)
    /\ UNCHANGED <<argv, args, fs, hostVars, dep_results, locals, calls, exit_code>>

Next ==
    \/ Main
    \/ InitConfig
    \/ ShowConfig
    \/ Exit
    \/ CheckDependencies
    \/ CheckMounted
    \/ EnsureConfig
    \/ Import
    \/ Resolve
    \/ Unmount
    \/ RunFatsort
    \/ RecoveryMount
    \/ Remount
    \/ Summary

Spec == Init /\ [][Next]_vars

(***************************************************************************)
(* Vocabulary of the properties                                            *)
(***************************************************************************)

\* The positions in calls of the calls of one collaborator.
Calls(op) == {i \in DOMAIN calls : calls[i].op = op}

Logged(tag) == \E i \in DOMAIN log : log[i].tag = tag

LastLogged(tag) == log # <<>> /\ log[Len(log)].tag = tag

\* The handler has returned.
Returned == pc \in {"return", "exited"}

\* The handler returned 1, and the process, once it has exited, exited with 1.
Failed == Returned /\ ret = 1 /\ (pc = "exited" => exit_code = 1)

\* What the tool itself did, whatever the code made of it.
ToolRan(proc) == proc.raised = ""

ToolSucceeded(proc) == proc.raised = "" /\ proc.rc = 0

\* The stages of a session, in the order of the spec; each is logged by the
\* step that completes it.
StageOrder ==
    <<"DependenciesVerified", "VolumeFound", "ConfigReady", "Imported",
      "Unmounted", "Reordered", "Remounted", "Done">>

IsStage(entry) == \E i \in DOMAIN StageOrder : StageOrder[i] = entry.tag

StageLog == SelectSeq(log, IsStage)

\* The place of each collaborator in the order of a session.
CallRank(op) ==
    CASE op = "is_mounted" -> 1
      [] op = "create_beets_config" -> 2
      [] op = "run_beets_import" -> 3
      [] op = "get_device_node" -> 4
      [] op = "unmount_volume" -> 5
      [] op = "run_fatsort" -> 6
      [] op = "mount_volume" -> 7

\* The device path a call to mount_volume or run_fatsort was made with (the
\* last word of its command line).
DeviceOf(i) == calls[i].cmd[Len(calls[i].cmd)]

(***************************************************************************)
(* Properties                                                              *)
(***************************************************************************)

\* C1: in a session started with the dry-run flag, whatever the dependency
\* check, the mount check, the config creation and the import did, unmount,
\* fatsort and mount are never called.
C1_DryRunNeverUnmounts ==
    args.dry_run =>
        /\ Calls("unmount_volume") = {}
        /\ Calls("run_fatsort") = {}
        /\ Calls("mount_volume") = {}

\* A dry run whose import ran and succeeded, and which has exited.
C1_Witness ==
    /\ args.dry_run
    /\ pc = "exited"
    /\ \E i \in Calls("run_beets_import") : calls[i].ok

\* C2: fatsort is only called on an unmounted volume, after an unmount that
\* was confirmed and before any mount; the import is only called on a mounted
\* volume, after the mount check passed and before any unmount.
C2_ReorderUnmountedImportMounted ==
    /\ \A f \in Calls("run_fatsort") :
          /\ ~calls[f].mounted
          /\ \E u \in Calls("unmount_volume") : u < f /\ calls[u].ok
          /\ \A m \in Calls("mount_volume") : f < m
    /\ \A i \in Calls("run_beets_import") :
          /\ calls[i].mounted
          /\ \E c \in Calls("is_mounted") : c < i /\ calls[c].ok
          /\ \A u \in Calls("unmount_volume") : i < u

\* Both the import and fatsort have been called.
C2_Witness ==
    /\ Calls("run_fatsort") # {}
    /\ Calls("run_beets_import") # {}
    /\ pc = "exited"

\* fatsort was called and failed (non-zero exit, or the tool is missing).
ReorderFailed == \E f \in Calls("run_fatsort") : ~ToolSucceeded(calls[f].proc)

\* C3: once fatsort has failed after a successful unmount, the session goes
\* through the recovery mount only: when the handler has returned, mount was
\* called exactly once, after the unmount, with the device node that the one
\* resolution before the unmount returned (not the raw node fatsort was
\* given), and the session has failed without reaching Done.
C3_ReorderFailureRemountsOnce ==
    ReorderFailed =>
        /\ pc \in {"recover", "return", "exited"}
        /\ ~Logged("Done")
        /\ Returned =>
             /\ Failed
             /\ Cardinality(Calls("mount_volume")) = 1
             /\ Cardinality(Calls("get_device_node")) = 1
             /\ \A m \in Calls("mount_volume") :
                  /\ \E r \in Calls("get_device_node"), u \in Calls("unmount_volume") :
                       /\ r < u /\ u < m
                       /\ calls[u].ok
                       /\ calls[m].cmd = mount_cmd(calls[r].result)
                  /\ \A f \in Calls("run_fatsort") :
                       f < m /\ DeviceOf(m) # DeviceOf(f)

\* fatsort failed, the recovery mount was made, and the process has exited.
C3_Witness ==
    /\ ReorderFailed
    /\ pc = "exited"
    /\ Calls("mount_volume") # {}

\* The mounts made on the recovery path: those after a failed fatsort.
RecoveryMounts ==
    {m \in Calls("mount_volume") :
        \E f \in Calls("run_fatsort") : f < m /\ ~ToolSucceeded(calls[f].proc)}

\* C4: whether the recovery mount fails or succeeds, no exception leaves
\* sync_shokz and the session fails: it returns 1, never 0.
C4_RecoveryMountFailureSwallowed ==
    \A m \in RecoveryMounts :
        /\ pc # "crashed"
        /\ Failed
        /\ ~Logged("Remounted")
        /\ ~Logged("Done")

\* A recovery mount that failed, in a process that has exited.
C4_Witness ==
    /\ pc = "exited"
    /\ \E m \in RecoveryMounts : ~ToolSucceeded(calls[m].proc)
    /\ \E m \in RecoveryMounts : ~calls[m].ok

\* fatsort succeeded and the mount after it failed.
RemountFailed ==
    \E f \in Calls("run_fatsort"), m \in Calls("mount_volume") :
        f < m /\ ToolSucceeded(calls[f].proc) /\ ~calls[m].ok

\* C5: when fatsort succeeded and the remount failed, there is no second
\* fatsort, unmount or mount; the failure is logged as a remount failure, not
\* as a fatsort failure; the session fails.
C5_RemountFailureNotRetried ==
    RemountFailed =>
        /\ Cardinality(Calls("run_fatsort")) = 1
        /\ Cardinality(Calls("unmount_volume")) = 1
        /\ Cardinality(Calls("mount_volume")) = 1
        /\ LastLogged("error: remount")
        /\ ~Logged("error: fatsort")
        /\ ~Logged("Remounted")
        /\ Failed

C5_Witness == RemountFailed /\ pc = "exited"

\* C6: the stages complete in the fixed order, none skipped and none
\* repeated: the stages logged are always a prefix of the order, each
\* collaborator is called at most once and in the order of the stages, and a
\* stage is logged only when its collaborator succeeded.
C6_StagesInOrder ==
    /\ Len(StageLog) <= Len(StageOrder)
    /\ \A i \in DOMAIN StageLog : StageLog[i].tag = StageOrder[i]
    /\ args.command = "sync" =>
          \A i, j \in DOMAIN calls :
              i < j => CallRank(calls[i].op) < CallRank(calls[j].op)
    /\ Logged("VolumeFound") => \E i \in Calls("is_mounted") : calls[i].ok
    /\ Logged("Imported") => \E i \in Calls("run_beets_import") : calls[i].ok
    /\ Logged("Unmounted") => \E i \in Calls("unmount_volume") : calls[i].ok
    /\ Logged("Reordered") => \E i \in Calls("run_fatsort") : calls[i].ok
    /\ Logged("Remounted") => \E i \in Calls("mount_volume") : calls[i].ok

\* A session that reached Done.
C6_Witness == Logged("Done") /\ Len(StageLog) = Len(StageOrder)

\* The dependency check reported at least one tool unavailable.
ToolUnavailable == \E i \in DOMAIN dep_results : ~dep_results[i]

ImportFailed ==
    \E i \in Calls("run_beets_import") : ~ToolSucceeded(calls[i].proc)

\* C8: when the import fails the session fails before any unmount: no
\* resolution, unmount, fatsort or mount is ever called, and the volume is
\* still mounted.
C8_ImportFailureBeforeUnmount ==
    ImportFailed =>
        /\ Calls("get_device_node") = {}
        /\ Calls("unmount_volume") = {}
        /\ Calls("run_fatsort") = {}
        /\ Calls("mount_volume") = {}
        /\ device_node = <<>>
        /\ volMounted
        /\ Failed

\* An import that could not be started, in a process that has exited.
C8_Witness ==
    /\ pc = "exited"
    /\ \E i \in Calls("run_beets_import") : ~ToolRan(calls[i].proc)

\* The unmount was called and the tool did not confirm it: it exited
\* non-zero, or printed no "unmounted".
UnmountFailed ==
    \E u \in Calls("unmount_volume") :
        \/ ~ToolSucceeded(calls[u].proc)
        \/ ~Contains(Lower(calls[u].proc.stdout), W_UNMOUNTED)

\* C9: when the unmount fails the session fails with no recovery: neither
\* fatsort nor mount is called afterwards.
C9_UnmountFailureNoRecovery ==
    UnmountFailed =>
        /\ Calls("run_fatsort") = {}
        /\ Calls("mount_volume") = {}
        /\ LastLogged("error: unmount")
        /\ Failed

C9_Witness == UnmountFailed /\ pc = "exited"

\* C10: a sync exits with 0 exactly when it reached Done, every stage through
\* the remount having succeeded, or was a dry run whose import succeeded;
\* otherwise it exits with 1.  No exception leaves sync_shokz.
C10_ExitCode ==
    args.command = "sync" =>
        /\ pc # "crashed"
        /\ pc = "exited" =>
             /\ exit_code \in {0, 1}
             /\ exit_code = 0 <=>
                  \/ Logged("Done")
                  \/ args.dry_run /\ Logged("Imported")
        /\ Logged("Done") =>
             /\ ~args.dry_run
             /\ \A op \in {"is_mounted", "run_beets_import", "get_device_node",
                           "unmount_volume", "run_fatsort", "mount_volume"} :
                    \E i \in Calls(op) : calls[i].ok

\* A sync that reached Done and exited with 0.
C10_Witness ==
    /\ args.command = "sync"
    /\ pc = "exited"
    /\ exit_code = 0
    /\ Logged("Done")

(***************************************************************************)
(* The collaborators called on their own, as the tests call them: one call *)
(* of one function, on any output the tool could give.  The call is kept   *)
(* in calls, the exception it raised (if any) in log, and the device-node  *)
(* argument of a call that takes one in device_node.                       *)
(***************************************************************************)

TXT_UNMOUNTED_UPPER ==
    <<"V", "O", "L", "U", "M", "E", " ", "X", "T", "R", "A", "I", "N", "E",
    "R", "Z", " ", "O", "N", " ", "D", "I", "S", "K", "4", "S", "1", " ",
    "U", "N", "M", "O", "U", "N", "T", "E", "D", "\n">>

TXT_MOUNTED_UPPER ==
    <<"V", "O", "L", "U", "M", "E", " ", "X", "T", "R", "A", "I", "N", "E",
    "R", "Z", " ", "O", "N", " ", "D", "I", "S", "K", "4", "S", "1", " ",
    "M", "O", "U", "N", "T", "E", "D", "\n">>

TXT_NOT_MOUNTED ==
    <<"V", "o", "l", "u", "m", "e", " ", "X", "T", "R", "A", "I", "N", "E",
    "R", "Z", " ", "i", "s", " ", "n", "o", "t", " ", "m", "o", "u", "n",
    "t", "e", "d", "\n">>

TXT_DISK4S1 ==
    <<"d", "i", "s", "k", "4", "s", "1">>

LINE_NODE_EMPTY ==
    <<" ", " ", " ", "D", "e", "v", "i", "c", "e", " ", "N", "o", "d", "e",
    ":">>

LINE_NODE_LOWER ==
    <<" ", " ", " ", "d", "e", "v", "i", "c", "e", " ", "n", "o", "d", "e",
    ":", " ", " ", " ", " ", " ", " ", " ", " ", " ", " ", " ", " ", " ",
    " ", "/", "d", "e", "v", "/", "d", "i", "s", "k", "4", "s", "1">>

LINE_MOUNTED_LOWER ==
    <<" ", " ", " ", "M", "o", "u", "n", "t", "e", "d", ":", " ", " ", " ",
    " ", " ", " ", " ", " ", " ", " ", " ", " ", " ", " ", " ", " ", " ",
    " ", "y", "e", "s">>

LINE_NO_COLON ==
    <<"C", "o", "u", "l", "d", " ", "n", "o", "t", " ", "f", "i", "n", "d",
    " ", "d", "i", "s", "k">>

LINE_UUID ==
    <<" ", " ", " ", "V", "o", "l", "u", "m", "e", " ", "U", "U", "I", "D",
    ":", " ", " ", " ", " ", " ", " ", " ", " ", " ", " ", " ", " ", " ",
    " ", "0", "E", "2", "3", "9", "B", "C", "6", ":", "A", "1", "F", "2">>

ID_4S1 ==
    <<"4", "s", "1">>

ID_10S1 ==
    <<"1", "0", "s", "1">>

P_DEV ==
    <<"/", "d", "e", "v", "/">>

P_DISK ==
    <<"d", "i", "s", "k">>

\* What diskutil unmount or mount can print.
ToolTexts ==
    { <<>>,
      OUT_VOLUME_ON \o TXT_DISK4S1 \o OUT_UNMOUNTED,
      OUT_VOLUME_ON \o TXT_DISK4S1 \o OUT_MOUNTED,
      OUT_VOLUME_ON \o TXT_DISK4S1 \o OUT_FAILED_TO_MOUNT,
      TXT_UNMOUNTED_UPPER,
      TXT_MOUNTED_UPPER,
      TXT_NOT_MOUNTED,
      ERR_RESOURCE_BUSY,
      OUT_UNMOUNT_FAILED \o TXT_DISK4S1 \o <<"\n">> }

\* Every way a run of diskutil unmount or mount can end.
ToolRuns ==
    { Completed(rc, out, err) :
        rc \in {0} \cup ExitCodes, out \in ToolTexts, err \in ToolTexts }
    \cup { NotCompleted("FileNotFoundError") }

\* The lines diskutil info can print (without their line breaks).
InfoLines ==
    { RStrip(LINE_DEVICE_NODE \o NODE_A),
      RStrip(LINE_DEVICE_NODE \o NODE_B),
      LINE_NODE_EMPTY,
      LINE_NODE_LOWER,
      RStrip(LINE_MOUNTED_YES),
      RStrip(LINE_MOUNTED_NO),
      LINE_MOUNTED_LOWER,
      LINE_NO_COLON,
      LINE_UUID,
      <<":", " ", "y", "e", "s">>,
      <<>> }

\* The most lines an output of diskutil info is given here.
MaxInfoLines == 2

InfoTexts ==
    { Join(lines, <<"\n">>) :
        lines \in UNION { [1..n -> InfoLines] : n \in 0..MaxInfoLines } }

\* Every way a run of diskutil info can end.
InfoRuns ==
    { Completed(rc, out, <<>>) : rc \in {0} \cup ExitCodes, out \in InfoTexts }
    \cup { NotCompleted("FileNotFoundError") }

\* Every way a run of fatsort can end.
FatsortRuns ==
    { Completed(rc, <<>>, err) :
        rc \in {0} \cup ExitCodes, err \in {<<>>, ERR_FATSORT} }
    \cup { NotCompleted("FileNotFoundError") }

\* Device nodes, buffered and raw.
DeviceNodeArgs ==
    { prefix \o id : prefix \in {DEV_DISK, DEV_RDISK}, id \in {ID_4S1, ID_10S1, <<"4">>} }

\* The pieces device-node strings are put together from, and the most pieces
\* of one string.
Pieces == {DEV_DISK, DEV_RDISK, P_DEV, P_DISK, <<"r">>, <<"/">>, ID_4S1}

MaxPieces == 3

RECURSIVE Concat(_)
Concat(parts) == IF parts = <<>> THEN <<>> ELSE Head(parts) \o Concat(Tail(parts))

DeviceNodeStrings ==
    { Concat(parts) : parts \in UNION { [1..n -> Pieces] : n \in 0..MaxPieces } }

(***************************************************************************)
(* cli.py: count_music_files.  A tree is what lies under the directory: a  *)
(* set of entries, each a directory (the names on the way down to it) and  *)
(* the name of a file in it, or no name for the directory alone.           *)
(***************************************************************************)
EXTENSIONS ==
    { <<".", "m", "p", "3">>, <<".", "m", "4", "a">>, <<".", "f", "l", "a", "c">>,
      <<".", "o", "g", "g">>, <<".", "a", "a", "c">> }

\* Path(file).suffix: from the last dot on, unless that dot is the first or
\* the last character of the name.
path_suffix(file) ==
    LET dots == { i \in 1..Len(file) : file[i] = "." }
        last == CHOOSE i \in dots : \A j \in dots : j <= i
    IN  IF dots # {} /\ 1 < last /\ last < Len(file)
        THEN SubSeq(file, last, Len(file))
        ELSE <<>>

Entry(dir, name) == [dir |-> dir, name |-> name]

\* The directories of a tree: the top, and every directory on the way to an
\* entry.
IsUnder(dir, root) ==
    Len(dir) >= Len(root) /\ SubSeq(dir, 1, Len(root)) = root

\* os.walk's dirs and files for one root.
walk_dirs(tree, root) ==
    { SubSeq(e.dir, 1, Len(root) + 1) :
        e \in { x \in tree : IsUnder(x.dir, root) /\ Len(x.dir) > Len(root) } }

walk_files(tree, root) ==
    { e.name : e \in { x \in tree : x.dir = root /\ x.name # <<>> } }

\* The roots os.walk(directory) yields, top down; none when the directory
\* does not exist.
RECURSIVE walk_from(_, _)
walk_from(tree, root) ==
    {root} \cup UNION { walk_from(tree, sub) : sub \in walk_dirs(tree, root) }

walk(exists, tree) == IF exists THEN walk_from(tree, <<>>) ELSE {}

\* The walk stays in the top directory.
count_music_files_top_only(exists, tree) ==
    IF exists
    THEN Cardinality({ file \in walk_files(tree, <<>>) :
                         Lower(path_suffix(file)) \in EXTENSIONS })
    ELSE 0

\* count += 1 for every file of every root whose suffix, in lower case, is
\* one of the extensions.
count_music_files(exists, tree) ==
    Cardinality({ rf \in UNION { { <<root, file>> : file \in walk_files(tree, root) } :
                                 root \in walk(exists, tree) } :
                    Lower(path_suffix(rf[2])) \in EXTENSIONS })

\* File names: music in every extension and in other cases, and names that
\* only look like music.
FileNames ==
    { <<"s", ".", "m", "p", "3">>,
      <<"S", ".", "M", "P", "3">>,
      <<"t", ".", "M", "4", "a">>,
      <<"u", ".", "f", "l", "a", "c">>,
      <<"v", ".", "o", "g", "g">>,
      <<"w", ".", "a", "a", "c">>,
      <<"r", ".", "t", "x", "t">>,
      <<".", "m", "p", "3">>,
      <<"m", "p", "3">>,
      <<"x", ".", "m", "p", "3", ".", "b", "a", "k">>,
      <<"y", ".", "t", "a", "r", ".", "f", "l", "a", "c">>,
      <<"z", ".", "m", "p", "3", ".">> }

\* Directories: the top, one below it, and one below that named like music.
Directories == { <<>>, <<"a">>, <<"a", "b.mp3">> }

Entries == { Entry(dir, name) : dir \in Directories, name \in FileNames \cup {<<>>} }

MaxEntries == 2

Trees ==
    { { chosen[i] : i \in DOMAIN chosen } :
        chosen \in UNION { [1..n -> Entries] : n \in 0..MaxEntries } }

\* The mountpoints of the single calls: one more, whose name holds the
\* letters of "busy".
UnitMountpoints ==
    Mountpoints \cup { <<"/", "V", "o", "l", "u", "m", "e", "s", "/", "b", "u", "s", "y", "b", "o", "x">> }

InitUnit ==
    /\ pc = "unit"
    /\ argv = Argv("", <<>>, "", FALSE, FALSE, FALSE)
    /\ fs = {}
    /\ args \in { Namespace("", m, "", FALSE, FALSE, FALSE) : m \in UnitMountpoints }
    /\ pathExists \in BOOLEAN
    /\ volMounted \in BOOLEAN
    /\ volMounted => pathExists
    /\ volNode = NODE_A
    /\ config = "absent"
    /\ dep_results = <<>>
    /\ device_node = <<>>
    /\ raw_device = <<>>
    /\ calls = <<>>
    /\ log = <<>>
    /\ ret = -1
    /\ exit_code = -1

\* One call has been made: what it was, and what it raised.
Called(call, done) ==
    /\ pc' = "called"
    /\ calls' = <<call>>
    /\ log' = IF done.ok THEN <<>> ELSE <<Say(done.exc, done.msg)>>
    /\ UNCHANGED <<argv, args, hostVars, dep_results, raw_device, ret, exit_code>>

CallUnmountVolume ==
    /\ pc = "unit"
    /\ \E proc \in ToolRuns :
         LET done == unmount_volume(args.mountpoint, proc)
         IN  /\ Called(Call("unmount_volume", unmount_cmd(args.mountpoint), proc,
                            done.ok, <<>>), done)
             /\ UNCHANGED <<device_node, fs>>

CallMountVolume ==
    /\ pc = "unit"
    /\ \E proc \in ToolRuns, node \in DeviceNodes :
         LET done == mount_volume(node, proc)
         IN  /\ Called(Call("mount_volume", mount_cmd(node), proc, done.ok, <<>>), done)
             /\ device_node' = node /\ UNCHANGED fs

CallGetDeviceNode ==
    /\ pc = "unit"
    /\ \E proc \in InfoRuns :
         LET done == get_device_node(args.mountpoint, proc)
         IN  /\ Called(Call("get_device_node", info_cmd(args.mountpoint), proc,
                            done.ok, IF done.ok THEN done.val ELSE <<>>), done)
             /\ UNCHANGED <<device_node, fs>>

CallGetMountInfo ==
    /\ pc = "unit"
    /\ \E proc \in InfoRuns :
         LET done == get_mount_info(args.mountpoint, proc)
         IN  /\ Called(Call("get_mount_info", info_cmd(args.mountpoint), proc,
                            done.ok, IF done.ok THEN done.val ELSE EmptyDict), done)
             /\ UNCHANGED <<device_node, fs>>

CallIsMounted ==
    /\ pc = "unit"
    /\ \E proc \in InfoRuns :
         LET done == is_mounted(args.mountpoint, pathExists, proc)
         IN  /\ Called(Call("is_mounted",
                            IF pathExists THEN info_cmd(args.mountpoint) ELSE <<>>,
                            IF pathExists THEN proc ELSE NoProcess,
                            done.ok /\ done.val, <<>>), done)
             /\ UNCHANGED <<device_node, fs>>

CallRunFatsort ==
    /\ pc = "unit"
    /\ \E proc \in FatsortRuns, node \in DeviceNodeArgs, use_sudo \in BOOLEAN :
         LET done == run_fatsort(node, use_sudo, proc)
         IN  /\ Called(Call("run_fatsort", fatsort_cmd(node, use_sudo), proc,
                            done.ok, <<>>), done)
             /\ device_node' = node /\ UNCHANGED fs

CallGetRawDeviceNode ==
    /\ pc = "unit"
    /\ \E node \in DeviceNodeStrings :
         /\ Called(Call("get_raw_device_node", <<>>, NoProcess, TRUE,
                        get_raw_device_node(node)), Return(<<>>))
         /\ device_node' = node /\ UNCHANGED fs

CallCountMusicFiles ==
    /\ pc = "unit"
    /\ \E tree \in Trees :
         /\ pathExists \/ tree = {}
         /\ Called(Call("count_music_files", <<>>, NoProcess, TRUE,
                        count_music_files(pathExists, tree)), Return(<<>>))
         /\ fs' = tree
         /\ UNCHANGED device_node

NextUnit ==
    \/ CallUnmountVolume
    \/ CallMountVolume
    \/ CallGetDeviceNode
    \/ CallGetMountInfo
    \/ CallIsMounted
    \/ CallRunFatsort
    \/ CallGetRawDeviceNode
    \/ CallCountMusicFiles

SpecUnit == InitUnit /\ [][NextUnit]_vars

(***************************************************************************)
(* Properties of the single calls                                          *)
(***************************************************************************)

\* The one call of the behaviour was a call of op.
Made(op) == pc = "called" /\ Len(calls) = 1 /\ calls[1].op = op

\* The call raised, and the exception was of this type.
RaisedA(type) == log # <<>> /\ log[1].tag = type

\* word (in lower case) occurs in text, whatever the case of the text.
Mentions(text, word) ==
    \E i \in 1..(Len(text) - Len(word) + 1) :
        \A k \in 1..Len(word) : LowerChar(text[i + k - 1]) = word[k]

\* The tool ran to its end, exited zero and printed the word.
Confirmed(proc, word) ==
    proc.raised = "" /\ proc.rc = 0 /\ Mentions(proc.stdout, word)

\* C11: unmount_volume returns normally exactly when the tool exited zero and
\* its output holds "unmounted" in any case; a zero exit without the word and
\* every non-zero exit raise DiskutilError.
C11_UnmountDecidedByText ==
    Made("unmount_volume") =>
        LET proc == calls[1].proc
        IN  /\ calls[1].ok <=> Confirmed(proc, W_UNMOUNTED)
            /\ calls[1].ok <=> log = <<>>
            /\ (proc.raised = "" /\ ~Confirmed(proc, W_UNMOUNTED))
                   => RaisedA("DiskutilError")

\* A zero exit without the confirmation word was raised as an error.
C11_Witness ==
    /\ Made("unmount_volume")
    /\ calls[1].proc.raised = ""
    /\ calls[1].proc.rc = 0
    /\ ~Mentions(calls[1].proc.stdout, W_UNMOUNTED)
    /\ RaisedA("DiskutilError")

\* word (in lower case) stands in text at position i, whatever the case.
MentionsAt(text, word, i) ==
    /\ i >= 1
    /\ i + Len(word) - 1 <= Len(text)
    /\ \A k \in 1..Len(word) : LowerChar(text[i + k - 1]) = word[k]

\* The text reports a mount: it holds "mounted" other than as part of
\* "unmounted" and other than after "not ".
ReportsMounted(text) ==
    \E i \in 1..Len(text) :
        /\ MentionsAt(text, W_MOUNTED, i)
        /\ ~MentionsAt(text, <<"u", "n">>, i - 2)
        /\ ~MentionsAt(text, <<"n", "o", "t", " ">>, i - 4)

\* C12: mount_volume returns normally only when the tool exited zero and its
\* output reports a mount; it raises for every other output, also for one
\* that says "unmounted" or "not mounted".
C12_MountDecidedByText ==
    Made("mount_volume") =>
        LET proc == calls[1].proc
        IN  calls[1].ok <=>
                (proc.raised = "" /\ proc.rc = 0 /\ ReportsMounted(proc.stdout))

\* The tool failed and its diagnostic text says the volume is busy.
ReportsBusy(proc) ==
    proc.raised = "" /\ proc.rc # 0 /\ Mentions(proc.stderr, W_BUSY)

\* The tool failed to unmount for a reason other than a busy volume.
GenericFailure(proc) ==
    /\ proc.raised = ""
    /\ ~Confirmed(proc, W_UNMOUNTED)
    /\ ~Mentions(proc.stdout, W_BUSY)
    /\ ~Mentions(proc.stderr, W_BUSY)

\* The exception types unmount_volume raises for generic failures.
GenericFailureKinds ==
    { unmount_volume(args.mountpoint, proc).exc :
        proc \in { p \in ToolRuns : GenericFailure(p) } }

\* C13: the error unmount_volume raises for a busy volume is of another kind
\* (exception type) than the error it raises for a generic unmount failure.
C13_BusyErrorOfOwnKind ==
    (Made("unmount_volume") /\ ReportsBusy(calls[1].proc)) =>
        /\ log # <<>>
        /\ log[1].tag \notin GenericFailureKinds

\* text begins with prefix.
StartsWith(text, prefix) ==
    Len(text) >= Len(prefix) /\ SubSeq(text, 1, Len(prefix)) = prefix

\* What follows the prefix in text.
After(text, prefix) == SubSeq(text, Len(prefix) + 1, Len(text))

\* The disk a device node names, buffered or raw.
DiskOf(node) ==
    IF StartsWith(node, DEV_RDISK) THEN After(node, DEV_RDISK)
    ELSE After(node, DEV_DISK)

\* The device path of a reorder command: its last word.
DevicePassed(cmd) == cmd[Len(cmd)]

\* C14: whatever device node run_fatsort is given, buffered or raw, with or
\* without sudo, the path it passes to fatsort is the raw node of the same
\* disk.
C14_FatsortOnRawDevice ==
    Made("run_fatsort") =>
        /\ StartsWith(DevicePassed(calls[1].cmd), DEV_RDISK)
        /\ DevicePassed(calls[1].cmd) = DEV_RDISK \o DiskOf(device_node)

\* A buffered node was given, with sudo, and the raw one was passed.
C14_Witness ==
    /\ Made("run_fatsort")
    /\ StartsWith(device_node, DEV_DISK)
    /\ calls[1].cmd[1] = W_SUDO
    /\ StartsWith(DevicePassed(calls[1].cmd), DEV_RDISK)

\* C15: run_fatsort returns normally only when fatsort exited zero; every
\* non-zero exit raises FatsortError whose message holds the exit code and
\* what the tool wrote to stderr; a tool that could not be started raises a
\* FatsortError that names no exit code.
C15_FatsortOutcome ==
    Made("run_fatsort") =>
        LET proc == calls[1].proc
        IN  /\ calls[1].ok <=> (proc.raised = "" /\ proc.rc = 0)
            /\ calls[1].ok <=> log = <<>>
            /\ (proc.raised = "" /\ proc.rc # 0) =>
                   /\ RaisedA("FatsortError")
                   /\ StartsWith(log[1].msg, MSG_FATSORT_EXIT \o IntToStr(proc.rc))
                   /\ Contains(log[1].msg, proc.stderr)
            /\ proc.raised = "FileNotFoundError" =>
                   /\ RaisedA("FatsortError")
                   /\ ~Contains(log[1].msg, MSG_FATSORT_EXIT)
                   /\ log[1].msg \notin
                          { run_fatsort(device_node, TRUE, p).msg :
                              p \in { q \in FatsortRuns : q.raised = "" } }

\* fatsort exited non-zero with diagnostics and FatsortError was raised.
C15_Witness ==
    /\ Made("run_fatsort")
    /\ calls[1].proc.raised = ""
    /\ calls[1].proc.rc = MaxExitCode
    /\ calls[1].proc.stderr = ERR_FATSORT
    /\ RaisedA("FatsortError")
    /\ Contains(log[1].msg, ERR_FATSORT)

\* C16: deriving the raw node of a derived raw node changes nothing, and a
\* node that is raw already is returned as given.
C16_RawDerivationIdempotent ==
    Made("get_raw_device_node") =>
        /\ get_raw_device_node(calls[1].result) = calls[1].result
        /\ (StartsWith(device_node, DEV_RDISK) /\ ~Contains(device_node, DEV_DISK))
               => calls[1].result = device_node

\* A buffered node was given and its raw node, another string, came back.
C16_Witness ==
    /\ Made("get_raw_device_node")
    /\ device_node = DEV_DISK \o ID_4S1
    /\ calls[1].result = DEV_RDISK \o ID_4S1

\* The lines of a disk-info text that give a value to key, by their number.
LinesOf(text, key) ==
    LET lines == SplitLines(text)
    IN  { i \in 1..Len(lines) :
            /\ Contains(lines[i], <<":">>)
            /\ Strip(SplitColon(Strip(lines[i]))[1]) = key }

\* The value a disk-info text gives to key: that of the last line for it,
\* trimmed; <<>> when no line gives one.
ValueOf(text, key) ==
    LET lines == SplitLines(text)
        at == LinesOf(text, key)
        last == CHOOSE i \in at : \A j \in at : j <= i
    IN  IF at = {} THEN <<>> ELSE Strip(SplitColon(Strip(lines[last]))[2])

\* C17: get_device_node never returns an empty device node.  When diskutil
\* info succeeded, it raises DiskutilError if the text has no line with a
\* colon, no "Device Node" key or an empty value for it, and otherwise
\* returns the trimmed value of that key.
C17_DeviceNodeNeverEmpty ==
    Made("get_device_node") =>
        LET proc == calls[1].proc
            value == ValueOf(proc.stdout, KEY_DEVICE_NODE)
        IN  /\ calls[1].ok => calls[1].result # <<>>
            /\ calls[1].ok <=> log = <<>>
            /\ (proc.raised = "" /\ proc.rc = 0) =>
                   IF value = <<>>
                   THEN ~calls[1].ok /\ RaisedA("DiskutilError")
                   ELSE calls[1].ok /\ calls[1].result = value
            /\ ~(proc.raised = "" /\ proc.rc = 0) => ~calls[1].ok

\* The text had the key with an empty value, and the call raised.
C17_Witness ==
    /\ Made("get_device_node")
    /\ calls[1].proc.raised = ""
    /\ calls[1].proc.rc = 0
    /\ LinesOf(calls[1].proc.stdout, KEY_DEVICE_NODE) # {}
    /\ ValueOf(calls[1].proc.stdout, KEY_DEVICE_NODE) = <<>>
    /\ RaisedA("DiskutilError")

\* C18: is_mounted never raises.  It returns False without querying
\* diskutil when the path does not exist, False when the query fails or its
\* text cannot be parsed, and otherwise True exactly when the value of
\* "Mounted" is "Yes".
C18_IsMountedNeverRaises ==
    Made("is_mounted") =>
        LET proc == calls[1].proc
        IN  /\ log = <<>>
            /\ ~pathExists => (~calls[1].ok /\ calls[1].cmd = <<>>)
            /\ (pathExists /\ (proc.raised # "" \/ proc.rc # 0)) => ~calls[1].ok
            /\ (pathExists /\ proc.raised = "" /\ proc.rc = 0) =>
                   (calls[1].ok <=> ValueOf(proc.stdout, KEY_MOUNTED) = VAL_YES)

(***************************************************************************)
(* Properties of the session, continued                                    *)
(***************************************************************************)

\* The command line holds the word.
HasWord(cmd, word) == \E k \in DOMAIN cmd : cmd[k] = word

\* C19: the import is run with --pretend exactly in dry-run sessions; a dry
\* run never resolves the device node, and once its import has succeeded it
\* has returned 0 with the import as its last call.
C19_DryRunPretendsAndHalts ==
    /\ \A i \in Calls("run_beets_import") :
           HasWord(calls[i].cmd, W_PRETEND) <=> args.dry_run
    /\ args.dry_run =>
           /\ Calls("get_device_node") = {}
           /\ device_node = <<>>
           /\ raw_device = <<>>
           /\ \A i \in Calls("run_beets_import") :
                  calls[i].ok =>
                      /\ i = Len(calls)
                      /\ Returned
                      /\ ret = 0
                      /\ LastLogged("Imported")
                      /\ pc = "exited" => exit_code = 0

\* A dry run on a mounted volume has exited with 0 after a pretended import.
C19_Witness ==
    /\ args.dry_run
    /\ pc = "exited"
    /\ exit_code = 0
    /\ Calls("is_mounted") # {}
    /\ \E i \in Calls("run_beets_import") :
           calls[i].ok /\ HasWord(calls[i].cmd, W_PRETEND)

(***************************************************************************)
(* The session in which everything succeeds: the volume is mounted, the    *)
(* config is absent, the session is no dry run, and every step is taken    *)
(* only with an outcome in which the tools were found and the collaborator *)
(* called returned success.  The session runs on: sync_shokz is straight-  *)
(* line code, so a step that can be taken is taken.                        *)
(***************************************************************************)

\* Everything done so far has succeeded.
AllSucceeded ==
    /\ \A i \in DOMAIN dep_results : dep_results[i]
    /\ \A i \in DOMAIN calls : calls[i].ok

InitHappy ==
    /\ Init
    /\ args.command \in {"", "sync"}
    /\ ~args.dry_run
    /\ pathExists
    /\ volMounted
    /\ config = "absent"

\* fatsort leaves the volume under its device node: under another one the
\* mount that follows could not succeed.
NextHappy ==
    \/ Main /\ AllSucceeded'
    \/ CheckDependencies /\ AllSucceeded'
    \/ CheckMounted /\ AllSucceeded'
    \/ EnsureConfig /\ AllSucceeded'
    \/ Import /\ AllSucceeded'
    \/ Resolve /\ AllSucceeded'
    \/ Unmount /\ AllSucceeded'
    \/ RunFatsort /\ AllSucceeded' /\ volNode' = volNode
    \/ Remount /\ AllSucceeded'
    \/ Summary /\ AllSucceeded'
    \/ Exit /\ AllSucceeded'

SpecHappy == InitHappy /\ [][NextHappy]_vars /\ WF_vars(NextHappy)

\* The collaborators called so far, in the order of their calls.
Ops == [i \in DOMAIN calls |-> calls[i].op]

\* The calls of a session in which everything succeeds.
HappyCalls ==
    <<"is_mounted", "create_beets_config", "run_beets_import",
      "get_device_node", "unmount_volume", "run_fatsort", "mount_volume">>

C20_InOrder ==
    /\ Len(calls) <= Len(HappyCalls)
    /\ Ops = SubSeq(HappyCalls, 1, Len(calls))

C20_Done ==
    /\ pc = "exited"
    /\ exit_code = 0
    /\ LastLogged("Done")
    /\ Ops = HappyCalls
    /\ config = "valid"
    /\ volMounted

\* C20: with the volume mounted, all tools present, the config absent, no
\* dry run and every collaborator succeeding, the session creates the
\* config, then calls import, resolution, unmount, fatsort and mount once
\* each in that order, and eventually logs Done and exits with 0.
C20_EndToEndSuccess == []C20_InOrder /\ <>C20_Done

\* The session has exited with 0 after the seven calls.
C20_Witness ==
    /\ pc = "exited"
    /\ exit_code = 0
    /\ Len(calls) = Len(HappyCalls)
    /\ calls[2].op = "create_beets_config"
    /\ calls[Len(calls)].op = "mount_volume"
    /\ Logged("Done")

\* C21: get_device_node is called at most once in a session and before the
\* unmount; every mount, the remount and the recovery mount alike, is made
\* with the node that call returned, which is the one kept in device_node.
C21_ResolvedOnceBeforeUnmount ==
    /\ Cardinality(Calls("get_device_node")) <= 1
    /\ \A r \in Calls("get_device_node"), u \in Calls("unmount_volume") : r < u
    /\ \A m \in Calls("mount_volume") :
           /\ DeviceOf(m) = device_node
           /\ \E r \in Calls("get_device_node") :
                  /\ calls[r].ok
                  /\ calls[r].result = DeviceOf(m)
                  /\ \A u \in Calls("unmount_volume") : r < u /\ u < m

\* A mount was made with the stored node although the volume had been given
\* another node in the meantime.
C21_Witness ==
    /\ Calls("mount_volume") # {}
    /\ volNode # device_node
    /\ \A m \in Calls("mount_volume") : DeviceOf(m) = device_node

\* The steps of sync_shokz.
SyncSteps ==
    {"sync_shokz", "is_mounted", "config", "import", "resolve", "unmount",
     "fatsort", "recover", "remount", "summary"}

\* The value of an option: the one given, or the default.
Given(value, absent, default) == IF value = absent THEN default ELSE value

\* What main does with the command line: the handler it calls and the
\* arguments it passes.
C22_Routed ==
    pc = "main" =>
        /\ argv.command = "" =>
               /\ pc' = "sync_shokz"
               /\ args'.mountpoint = DEFAULT_MOUNTPOINT
               /\ args'.bitrate = "96k"
               /\ ~args'.dry_run
        /\ argv.command = "sync" =>
               /\ pc' = "sync_shokz"
               /\ args'.mountpoint = Given(argv.mountpoint, <<>>, DEFAULT_MOUNTPOINT)
               /\ args'.bitrate = Given(argv.bitrate, "", "96k")
               /\ args'.dry_run = argv.dry_run
        /\ argv.command = "init-config" => pc' = "init_config"
        /\ argv.command = "show-config" => pc' = "show_config"

\* init-config and show-config never run a step of sync_shokz.
C22_OwnHandler ==
    argv.command \in {"init-config", "show-config"} =>
        /\ pc \notin SyncSteps
        /\ \A i \in DOMAIN calls : calls[i].op = "create_beets_config"
        /\ dep_results = <<>>

HasExtension(name, ext) ==
    /\ Len(name) > Len(ext)
    /\ \A k \in 1..Len(ext) : LowerChar(name[Len(name) - Len(ext) + k]) = ext[k]

MusicExtensions ==
    { <<".", "m", "p", "3">>, <<".", "m", "4", "a">>, <<".", "f", "l", "a", "c">>,
      <<".", "o", "g", "g">>, <<".", "a", "a", "c">> }

\* The files of the tree, at any depth, that are music.
MusicFiles(tree) ==
    { e \in tree : e.name # <<>> /\ \E ext \in MusicExtensions : HasExtension(e.name, ext) }

\* C23: count_music_files returns the number of files of the tree, at any
\* depth, whose extension is .mp3, .m4a, .flac, .ogg or .aac in any case;
\* other files and empty directories count for nothing, and it never raises.
C23_CountsMusicAtAnyDepth ==
    Made("count_music_files") =>
        /\ calls[1].result = Cardinality(MusicFiles(fs))
        /\ calls[1].ok
        /\ log = <<>>

\* An upper-case .MP3 two directories down, beside a backup of an mp3 at the
\* top: one file was counted.
C23_Witness ==
    /\ Made("count_music_files")
    /\ fs = { Entry(<<"a", "b.mp3">>, <<"S", ".", "M", "P", "3">>),
             Entry(<<>>, <<"x", ".", "m", "p", "3", ".", "b", "a", "k">>) }
    /\ calls[1].result = 1

\* What the tool itself reported of a failure: its diagnostic text when it
\* exited non-zero, its output when it exited zero.
ReportedText(proc) == IF proc.rc # 0 THEN proc.stderr ELSE proc.stdout

\* The error raised is the busy one.
RaisedBusy ==
    /\ RaisedA("DiskutilError")
    /\ StartsWith(log[1].msg, MSG_CANNOT_UNMOUNT)
    /\ Contains(log[1].msg, MSG_BUSY_TAIL)

\* C24: a failed unmount is raised as the busy error exactly when the text
\* the unmount tool reported holds "busy"; every other failure is raised as
\* the generic error, whatever the mountpoint is called.
C24_BusyDecidedByToolText ==
    (Made("unmount_volume") /\ calls[1].proc.raised = "" /\ ~calls[1].ok) =>
        /\ RaisedA("DiskutilError")
        /\ RaisedBusy <=> Mentions(ReportedText(calls[1].proc), W_BUSY)

\* The session is over: the handler returned, or an exception left main.
Terminated == pc \in {"return", "exited", "crashed"}

\* The unmounts that succeeded.
Unmounted == { u \in Calls("unmount_volume") : calls[u].ok }

\* C25: when a session is over after an unmount that succeeded, mount_volume
\* has been called after that unmount with the node get_device_node
\* returned; so the volume is mounted then, unless a mount call failed.
C25_RemountedAfterUnmount ==
    (Terminated /\ Unmounted # {}) =>
        /\ \A u \in Unmounted :
               \E m \in Calls("mount_volume"), r \in Calls("get_device_node") :
                   /\ m > u
                   /\ calls[r].ok
                   /\ calls[m].cmd = mount_cmd(calls[r].result)
        /\ (\A m \in Calls("mount_volume") : calls[m].ok) => volMounted

\* fatsort failed after the unmount, the recovery mount succeeded and the
\* session ended with 1 and the volume mounted.
C25_Witness ==
    /\ pc = "exited"
    /\ exit_code = 1
    /\ Unmounted # {}
    /\ \E f \in Calls("run_fatsort") : ~calls[f].ok
    /\ \E m \in Calls("mount_volume") : calls[m].ok
    /\ volMounted

\* The session runs and the stage is the last thing it logged.
AtStage(stage) == pc \in SyncSteps /\ LastLogged(stage)

\* The steps whose own failure ends the session with 1.
FailurePossible == {"import", "resolve", "unmount", "recover", "remount"}

\* The Failed outcome can be reached from here: the next step can fail, or
\* it can lead to a step that can.
CanFail ==
    \/ ENABLED (Next /\ Failed')
    \/ ENABLED (Next /\ pc' \in FailurePossible)

\* Failed can be reached from each of the stages, and not once Done is
\* reached.
FailedReachableFrom(stages) ==
    /\ \A stage \in stages : AtStage(stage) => CanFail
    /\ pc \in FailurePossible => ENABLED (Next /\ Failed')
    /\ Logged("Done") => ~Failed /\ ~CanFail

\* C26 as stated: Failed is reachable from each of VolumeFound, ConfigReady,
\* Imported, Unmounted, Reordered and Remounted, and from no state after
\* Done; a session can fail after Remounted has been reached.
C26_FailedReachableThroughRemounted ==
    FailedReachableFrom({"VolumeFound", "ConfigReady", "Imported", "Unmounted",
                         "Reordered", "Remounted"})

\* C26, amended: Failed is reachable from each of VolumeFound, ConfigReady,
\* Imported, Unmounted and Reordered of a running session, and from no state
\* once Remounted or Done has been reached: after a remount that succeeded
\* the session does not fail.
C26_FailedReachableUntilRemounted ==
    /\ FailedReachableFrom({"VolumeFound", "ConfigReady", "Imported", "Unmounted",
                            "Reordered"})
    /\ Logged("Remounted") => ~Failed /\ ~CanFail

\* The session failed after fatsort had reordered the volume: the remount
\* failed.
C26_Witness ==
    /\ Failed
    /\ Logged("Reordered")
    /\ \E m \in Calls("mount_volume") : ~calls[m].ok

\* The places where word stands in text.
Occurrences(text, word) ==
    { i \in 1..(Len(text) - Len(word) + 1) : SubSeq(text, i, i + Len(word) - 1) = word }

\* text with its first occurrence of word, and no other, replaced by other.
FirstReplaced(text, word, other) ==
    IF Occurrences(text, word) = {} THEN text
    ELSE LET first == CHOOSE i \in Occurrences(text, word) :
                          \A j \in Occurrences(text, word) : i <= j
         IN  SubSeq(text, 1, first - 1) \o other
                 \o SubSeq(text, first + Len(word), Len(text))

\* C27: the raw device is the device node with its first "/dev/disk"
\* replaced by "/dev/rdisk"; every later occurrence is left as it is.
C27_OnlyFirstPrefixReplaced ==
    Made("get_raw_device_node") =>
        calls[1].result = FirstReplaced(device_node, DEV_DISK, DEV_RDISK)

\* text without the white space at its two ends.
Trimmed(text) ==
    LET inked == { i \in 1..Len(text) : text[i] \notin {" ", "\t", "\n", "\r"} }
    IN  IF inked = {} THEN <<>>
        ELSE SubSeq(text, CHOOSE i \in inked : \A j \in inked : i <= j,
                          CHOOSE i \in inked : \A j \in inked : j <= i)

\* The place of the first colon of a line that has one.
FirstColon(line) ==
    CHOOSE i \in 1..Len(line) : line[i] = ":" /\ \A j \in 1..(i - 1) : line[j] # ":"

\* What stands before the first colon of a line, and what stands after it.
KeyAt(line) == Trimmed(SubSeq(line, 1, FirstColon(line) - 1))

ValueAt(line) == Trimmed(SubSeq(line, FirstColon(line) + 1, Len(line)))

\* C28: of the output of diskutil info every line with a colon gives one
\* entry, the trimmed text before its first colon being the key and the
\* trimmed rest, colons included, the value; a line without a colon gives
\* none; of several lines with one key the last gives the value.
C28_InfoParsedLineByLine ==
    (Made("get_mount_info") /\ ToolSucceeded(calls[1].proc)) =>
        LET lines == SplitLines(calls[1].proc.stdout)
            keyed == { i \in 1..Len(lines) : \E k \in 1..Len(lines[i]) : lines[i][k] = ":" }
            info  == calls[1].result
        IN  /\ DOMAIN info = { KeyAt(lines[i]) : i \in keyed }
            /\ \A i \in keyed :
                   (\A j \in keyed : j > i => KeyAt(lines[j]) # KeyAt(lines[i]))
                       => info[KeyAt(lines[i])] = ValueAt(lines[i])
            /\ calls[1].ok <=> keyed # {}

\* Two lines gave the device node, /dev/disk4s1 and then /dev/disk5s1: the
\* second is the one in the dict.
C28_Witness ==
    /\ Made("get_mount_info")
    /\ calls[1].ok
    /\ calls[1].proc.stdout = RStrip(LINE_DEVICE_NODE \o NODE_A) \o <<"\n">>
                                 \o RStrip(LINE_DEVICE_NODE \o NODE_B)
    /\ calls[1].result[KEY_DEVICE_NODE] = NODE_B

====
